---- MODULE Spec2Model ----
(***************************************************************************)
(* State-machine model of python/examples/check_cm_service.py, a Nagios    *)
(* plugin that reports the health of one Cloudera Manager service.         *)
(*                                                                         *)
(* Strings are TLA+ strings (concatenated with \o exactly as the script's  *)
(* "%" formatting concatenates them); an optional value (Python None) is   *)
(* the empty tuple << >> and a given value v is the 1-tuple << v >>.       *)
(* Standard output is the sequence of its lines; the last one may still    *)
(* lack its newline (stdoutOpen), and later output then continues it.      *)
(***************************************************************************)
EXTENDS Integers, Sequences, FiniteSets, TLC

VARIABLES
  argv,      \* the command line of the process (fixed for the run)
  isatty,    \* whether standard input and output are a terminal (fixed)
  pc,        \* position of the process in __main__ / main()
  call,      \* which invocation of main() is running (1 or 2), 0 before
  args,      \* the argparse namespace of the running main(), << >> outside
  api,       \* the module-global session handle, << >> while None
  c,         \* main()'s local c (the cluster), << >> while unbound
  s,         \* main()'s local s (the service), << >> while unbound
  status,    \* main()'s local status, "" while unbound
  code,      \* main()'s local code, -1 while unbound
  stdout,    \* the lines written to standard output so far
  stdoutOpen,\* whether the last line of stdout still lacks its newline
  exitCode,  \* the exit code of the process, -1 while it runs
  error,     \* the exception that ended the process, "" if none
  hist       \* history: how often each side effect happened

vars == << argv, isatty, pc, call, args, api, c, s, status, code, stdout,
           stdoutOpen, exitCode, error, hist >>

(***************************************************************************)
(* Program constants.                                                      *)
(***************************************************************************)
DEFAULT_HTTP_PORT == 7180
DEFAULT_HTTPS_PORT == 7183
MINIMUM_SUPPORTED_API_VERSION == 12

EXIT_OK == 0
EXIT_WARNING == 1
EXIT_CRITICAL == 2
EXIT_UNKNOWN == 3

\* exit code of the interpreter when an exception is not caught
EXIT_UNCAUGHT == 1
\* exit code of argparse's parser.error()
EXIT_USAGE == 2

(***************************************************************************)
(* Bounds of the model.                                                    *)
(***************************************************************************)
\* longest health-check list the server returns
MaxChecks == 3

None == << >>
Some(v) == << v >>

\* Python truthiness of an optional int: None and 0 are falsy.
TruthyInt(opt) == opt # None /\ opt[1] # 0

\* Python truthiness of an optional string: None and "" are falsy.
TruthyStr(opt) == opt # None /\ opt[1] # ""

HealthSummaries ==
  {"HISTORY_NOT_AVAILABLE", "NOT_AVAILABLE", "DISABLED", "GOOD", "CONCERNING",
   "BAD"}

NAGIOS_CODE_MESSAGES(n) ==
  CASE n = EXIT_OK -> "OK"
    [] n = EXIT_WARNING -> "WARNING"
    [] n = EXIT_CRITICAL -> "CRITICAL"
    [] n = EXIT_UNKNOWN -> "UNKNOWN"

CM_STATE_CODES_Swapped(summary) ==
  CASE summary = "HISTORY_NOT_AVAILABLE" -> EXIT_UNKNOWN
    [] summary = "NOT_AVAILABLE" -> EXIT_UNKNOWN
    [] summary = "DISABLED" -> EXIT_UNKNOWN
    [] summary = "GOOD" -> EXIT_OK
    [] summary = "CONCERNING" -> EXIT_CRITICAL
    [] summary = "BAD" -> EXIT_WARNING

CM_STATE_CODES(summary) ==
  CASE summary = "HISTORY_NOT_AVAILABLE" -> EXIT_UNKNOWN
    [] summary = "NOT_AVAILABLE" -> EXIT_UNKNOWN
    [] summary = "DISABLED" -> EXIT_UNKNOWN
    [] summary = "GOOD" -> EXIT_OK
    [] summary = "CONCERNING" -> EXIT_WARNING
    [] summary = "BAD" -> EXIT_CRITICAL

(***************************************************************************)
(* The inputs: command lines and server answers.                           *)
(***************************************************************************)
PortArgs == {None, Some(0), Some(8080)}
ApiVersionArgs == {None, Some(-1), Some(0), Some(11), Some(13)}
UsernameArgs == {None, Some("admin")}
PasswordArgs == {None, Some("secret")}
\* the three required flags -H, -c, -s: all given, or one of them missing
RequiredArgs ==
  { [hostname |-> Some("cm-host"), cluster |-> Some("cluster1"),
     service |-> Some("hdfs")],
    [hostname |-> None, cluster |-> Some("cluster1"),
     service |-> Some("hdfs")] }

Argvs ==
  { [hostname |-> r.hostname, cluster |-> r.cluster, service |-> r.service,
     port |-> p, use_tls |-> t, api_version |-> v, username |-> u,
     password |-> w] :
      r \in RequiredArgs, p \in PortArgs, t \in BOOLEAN,
      v \in ApiVersionArgs, u \in UsernameArgs, w \in PasswordArgs }

\* what the operator types at the two prompts
TypedUsernames == {"admin"}
TypedPasswords == {"secret"}

\* the entries a health-check list is made of
CheckEntries ==
  { [name |-> "DATANODES_HEALTHY", summary |-> "BAD"],
    [name |-> "NAMENODE_UPTIME", summary |-> "GOOD"],
    [name |-> "NAMENODE_RPC_LATENCY", summary |-> "CONCERNING"],
    [name |-> "HDFS_CANARY_HEALTH", summary |-> "DISABLED"] }

\* the lists the server returns: at most MaxChecks entries, each health check
\* (a name) at most once
CheckLists ==
  UNION { { k \in [1..n -> CheckEntries] :
              \A i, j \in 1..n : i # j => k[i].name # k[j].name } :
          n \in 0..MaxChecks }

\* the errors a remote call raises
RemoteErrors == {"ApiException: not found", "ApiException: unauthorized",
                 "URLError: unreachable"}

(***************************************************************************)
(* main(), lines 106-134: parser.parse_args().                            *)
(***************************************************************************)
ParsedNamespace(av) ==
  [hostname |-> av.hostname[1], cluster |-> av.cluster[1],
   service |-> av.service[1], port |-> av.port, use_tls |-> av.use_tls,
   api_version |-> IF av.api_version = None
                     THEN Some(MINIMUM_SUPPORTED_API_VERSION)
                     ELSE av.api_version,
   username |-> av.username, password |-> av.password]

RequiredGiven(av) ==
  av.hostname # None /\ av.cluster # None /\ av.service # None

\* lines 136-141
ResolvePort(a) ==
  IF ~TruthyInt(a.port)
    THEN IF a.use_tls THEN Some(DEFAULT_HTTPS_PORT)
                      ELSE Some(DEFAULT_HTTP_PORT)
    ELSE a.port

\* validate_api_compatibility, line 85: the condition of the advisory
ApiVersionTooOld(a) ==
  TruthyInt(a.api_version) /\ a.api_version[1] < MINIMUM_SUPPORTED_API_VERSION

\* lines 86-87: the advisory line
AdvisoryLine(a) ==
  "ERROR: Given API version: " \o ToString(a.api_version[1])
    \o ". Minimum supported API version: "
    \o ToString(MINIMUM_SUPPORTED_API_VERSION)

\* lines 156-161: the head of the status line and the exit code
StatusHeadNoOverride(svc) ==
  [status |-> NAGIOS_CODE_MESSAGES(CM_STATE_CODES(svc.healthSummary))
                \o ": " \o svc.name \o " is " \o svc.healthSummary,
   code |-> CM_STATE_CODES(svc.healthSummary)]

StatusHead(svc) ==
  IF svc.healthSummary = "CONCERNING"
    THEN [status |-> NAGIOS_CODE_MESSAGES(CM_STATE_CODES("GOOD"))
                       \o ": " \o svc.name \o " is " \o svc.healthSummary,
          code |-> CM_STATE_CODES("GOOD")]
    ELSE [status |-> NAGIOS_CODE_MESSAGES(CM_STATE_CODES(svc.healthSummary))
                       \o ": " \o svc.name \o " is " \o svc.healthSummary,
          code |-> CM_STATE_CODES(svc.healthSummary)]

\* line 163: whether the individual checks are listed
ListsChecksDisabledToo(summary) == summary # "GOOD"

ListsChecks(summary) == summary # "GOOD" /\ summary # "DISABLED"

\* line 166: whether one check is listed
CheckIsListedDisabledToo(chk) == chk.summary # "GOOD"

CheckIsListed(chk) == chk.summary # "GOOD" /\ chk.summary # "DISABLED"

\* lines 165-167: the loop over the checks, from index i on
RECURSIVE AppendChecks(_, _, _)
AppendChecks(st, check, i) ==
  IF i > Len(check) THEN st
  ELSE AppendChecks(
         IF CheckIsListed(check[i])
           THEN st \o check[i].name \o " (" \o check[i].summary \o ") "
           ELSE st,
         check, i + 1)

\* lines 163-167
StatusTail(st, svc) ==
  IF ListsChecks(svc.healthSummary)
    THEN AppendChecks(st \o " - ", svc.healthChecks, 1)
    ELSE st

(***************************************************************************)
(* The process.                                                            *)
(***************************************************************************)
\* standard output after the text `text` is written to it without a newline
\* (out: the lines so far, open: whether the last one lacks its newline)
Written(out, open, text) ==
  IF open THEN [out EXCEPT ![Len(out)] = @ \o text] ELSE Append(out, text)

\* raw_input (line 97) writes its prompt to standard output unless standard
\* input and output are a terminal (then it goes to standard error);
\* getpass (line 99) never writes to standard output
USERNAME_PROMPT == "Enter Username: "

NoHist ==
  [apiWrites |-> 0, usernamePrompts |-> 0, passwordPrompts |-> 0,
   clusterFetches |-> 0, serviceFetches |-> 0, afterPrint |-> 0]

Init ==
  /\ argv \in Argvs
  /\ isatty \in BOOLEAN
  /\ pc = "start"
  /\ call = 0
  /\ args = None
  /\ api = None
  /\ c = None
  /\ s = None
  /\ status = ""
  /\ code = -1
  /\ stdout = << >>
  /\ stdoutOpen = FALSE
  /\ exitCode = -1
  /\ error = ""
  /\ hist = NoHist

\* the status line of the first main() has been printed (line 174 is done)
StatusPrinted == call = 2 \/ (call = 1 /\ pc = "start")

\* one more side effect of the kind `field` in the history h
Count(h, field) ==
  [h EXCEPT ![field] = @ + 1,
            !.afterPrint = IF StatusPrinted THEN @ + 1 ELSE @]

\* lines 174 and 175 each evaluate main(): enter it
CallMain ==
  /\ pc = "start"
  /\ call' = call + 1
  /\ pc' = "parse"
  /\ UNCHANGED << argv, isatty, args, api, c, s, status, code, stdout,
                  stdoutOpen, exitCode, error, hist >>

\* lines 107-134: a missing required flag ends the process with a usage error
ParseArgs ==
  /\ pc = "parse"
  /\ IF RequiredGiven(argv)
       THEN /\ args' = Some(ParsedNamespace(argv))
            /\ pc' = "port"
            /\ UNCHANGED << exitCode, error >>
       ELSE /\ pc' = "exited"
            /\ exitCode' = EXIT_USAGE
            /\ error' = "usage"
            /\ UNCHANGED args
  /\ UNCHANGED << argv, isatty, call, api, c, s, status, code, stdout,
                  stdoutOpen, hist >>

\* lines 136-141
DefaultPort ==
  /\ pc = "port"
  /\ args' = Some([args[1] EXCEPT !.port = ResolvePort(args[1])])
  /\ pc' = "validate"
  /\ UNCHANGED << argv, isatty, call, api, c, s, status, code, stdout,
                  stdoutOpen, exitCode, error, hist >>

\* line 143, validate_api_compatibility (lines 80-87)
ValidateApiCompatibility ==
  /\ pc = "validate"
  /\ IF ApiVersionTooOld(args[1])
       THEN /\ stdout' = Written(stdout, stdoutOpen, AdvisoryLine(args[1]))
            /\ stdoutOpen' = FALSE
       ELSE UNCHANGED << stdout, stdoutOpen >>
  /\ pc' = "credentials"
  /\ UNCHANGED << argv, isatty, call, args, api, c, s, status, code, exitCode,
                  error, hist >>

\* line 144, get_login_credentials (lines 90-99)
GetLoginCredentials ==
  /\ pc = "credentials"
  /\ \E u \in TypedUsernames, w \in TypedPasswords :
       LET a == args[1]
           askU == ~TruthyStr(a.username)
           askW == ~TruthyStr(a.password)
           h1 == IF askU THEN Count(hist, "usernamePrompts") ELSE hist
           h2 == IF askW THEN Count(h1, "passwordPrompts") ELSE h1
       IN /\ args' = Some([a EXCEPT
                            !.username = IF askU THEN Some(u) ELSE @,
                            !.password = IF askW THEN Some(w) ELSE @])
          /\ hist' = h2
          /\ IF askU /\ ~isatty
               THEN /\ stdout' = Written(stdout, stdoutOpen, USERNAME_PROMPT)
                    /\ stdoutOpen' = TRUE
               ELSE UNCHANGED << stdout, stdoutOpen >>
  /\ pc' = "init"
  /\ UNCHANGED << argv, isatty, call, api, c, s, status, code, exitCode,
                  error >>

\* line 145, initialize_api (lines 70-78)
InitializeApi ==
  /\ pc = "init"
  /\ api' = Some([server_host |-> args[1].hostname,
                  server_port |-> args[1].port[1],
                  username |-> args[1].username[1],
                  password |-> args[1].password[1],
                  version |-> args[1].api_version[1],
                  use_tls |-> args[1].use_tls])
  /\ hist' = [hist EXCEPT !.apiWrites = @ + 1]
  /\ pc' = "get_cluster"
  /\ UNCHANGED << argv, isatty, call, args, c, s, status, code, stdout,
                  stdoutOpen, exitCode, error >>

\* an exception nobody catches: traceback, exit code 1
Raise(e) ==
  /\ pc' = "exited"
  /\ exitCode' = EXIT_UNCAUGHT
  /\ error' = e

\* line 150
GetCluster ==
  /\ pc = "get_cluster"
  /\ hist' = Count(hist, "clusterFetches")
  /\ \/ /\ c' = Some([name |-> args[1].cluster])
        /\ pc' = "get_service"
        /\ UNCHANGED << exitCode, error >>
     \/ /\ \E e \in RemoteErrors : Raise(e)
        /\ UNCHANGED c
  /\ UNCHANGED << argv, isatty, call, args, api, s, status, code, stdout,
                  stdoutOpen >>

\* lines 151-154
GetService ==
  /\ pc = "get_service"
  /\ hist' = Count(hist, "serviceFetches")
  /\ \/ /\ \E h \in HealthSummaries, k \in CheckLists :
             s' = Some([name |-> args[1].service, healthSummary |-> h,
                        healthChecks |-> k])
        /\ pc' = "reduce"
        /\ UNCHANGED << exitCode, error >>
     \/ /\ \E e \in RemoteErrors : Raise(e)
        /\ UNCHANGED s
  /\ UNCHANGED << argv, isatty, call, args, api, c, status, code, stdout,
                  stdoutOpen >>

\* lines 156-167
Reduce ==
  /\ pc = "reduce"
  /\ LET head == StatusHead(s[1])
     IN /\ status' = StatusTail(head.status, s[1])
        /\ code' = head.code
  /\ pc' = "return"
  /\ UNCHANGED << argv, isatty, call, args, api, c, s, stdout, stdoutOpen,
                  exitCode, error, hist >>

\* line 169 reached from line 174: print main()[0]
ReturnAndPrint ==
  /\ pc = "return"
  /\ call = 1
  /\ stdout' = Written(stdout, stdoutOpen, status)
  /\ stdoutOpen' = FALSE
  /\ args' = None
  /\ c' = None
  /\ s' = None
  /\ status' = ""
  /\ code' = -1
  /\ pc' = "start"
  /\ UNCHANGED << argv, isatty, call, api, exitCode, error, hist >>

\* line 169 reached from line 175: sys.exit(main()[1])
ReturnAndExit ==
  /\ pc = "return"
  /\ call = 2
  /\ exitCode' = code
  /\ pc' = "exited"
  /\ UNCHANGED << argv, isatty, call, args, api, c, s, status, code, stdout,
                  stdoutOpen, error, hist >>

Next ==
  \/ CallMain
  \/ ParseArgs
  \/ DefaultPort
  \/ ValidateApiCompatibility
  \/ GetLoginCredentials
  \/ InitializeApi
  \/ GetCluster
  \/ GetService
  \/ Reduce
  \/ ReturnAndPrint
  \/ ReturnAndExit

Spec == Init /\ [][Next]_vars

(***************************************************************************)
(* Helpers of the properties.                                              *)
(***************************************************************************)
StartsWith(str, prefix) ==
  Len(str) >= Len(prefix) /\ SubSeq(str, 1, Len(prefix)) = prefix

\* main() is about to return (line 169): s, status and code are all bound
AtReturn == pc = "return"

IsFailing(e) == e.summary \notin {"GOOD", "DISABLED"}

RECURSIVE Rendered(_)
Rendered(entries) ==
  IF entries = << >> THEN ""
  ELSE entries[1].name \o " (" \o entries[1].summary \o ") "
         \o Rendered(Tail(entries))

\* "<service name> is <healthSummary>" of the fetched service
NameIsSummary == s[1].name \o " is " \o s[1].healthSummary

\* what follows "<LABEL>: <service name> is <healthSummary>" in status
AfterSummary ==
  LET n == Len(NAGIOS_CODE_MESSAGES(code) \o ": " \o NameIsSummary)
  IN SubSeq(status, n + 1, Len(status))

\* a line of standard output without the prompt that may precede its text
Unprompted(l) ==
  IF StartsWith(l, USERNAME_PROMPT)
    THEN SubSeq(l, Len(USERNAME_PROMPT) + 1, Len(l))
    ELSE l

\* the status strings on standard output: its lines, prompts taken off, that
\* are neither empty nor the API version advisory
StatusLines ==
  LET IsStatus(l) == Unprompted(l) # "" /\ ~StartsWith(l, "ERROR: ")
      kept == SelectSeq(stdout, IsStatus)
  IN [i \in 1..Len(kept) |-> Unprompted(kept[i])]

\* C1: when main() returns for a service whose healthSummary is
\* HISTORY_NOT_AVAILABLE, NOT_AVAILABLE, DISABLED, GOOD or BAD, the code is
\* 3, 3, 3, 0, 2 respectively and the status starts with the Nagios label of
\* that code (UNKNOWN, UNKNOWN, UNKNOWN, OK, CRITICAL).
C1_MappedCodeAndLabel ==
  AtReturn =>
    LET h == s[1].healthSummary
    IN /\ h \in {"HISTORY_NOT_AVAILABLE", "NOT_AVAILABLE", "DISABLED"} =>
            code = 3 /\ StartsWith(status, "UNKNOWN: ")
       /\ h = "GOOD" => code = 0 /\ StartsWith(status, "OK: ")
       /\ h = "BAD" => code = 2 /\ StartsWith(status, "CRITICAL: ")

C1_Witness ==
  /\ AtReturn
  /\ s[1].healthSummary = "BAD"
  /\ Len(s[1].healthChecks) = 2
  /\ s[1].healthChecks[1].summary = "GOOD"
  /\ code = 2
  /\ StartsWith(status, "CRITICAL: hdfs is BAD")

\* C2: when main() returns for a service whose healthSummary is CONCERNING,
\* the code is 0 (OK), not 1 (WARNING), and the status starts with OK.
C2_ConcerningIsOk ==
  (AtReturn /\ s[1].healthSummary = "CONCERNING") =>
    code = 0 /\ StartsWith(status, "OK: ")

C2_Witness ==
  /\ AtReturn
  /\ s[1].healthSummary = "CONCERNING"
  /\ \E i \in DOMAIN s[1].healthChecks : s[1].healthChecks[i].summary = "BAD"
  /\ code = 0

\* C3: a process that ends through sys.exit has printed exactly one status
\* string, and that string starts with the Nagios label of the exit code.
C3_PrintedLabelIsExitLabel ==
  (pc = "exited" /\ error = "") =>
    /\ Len(StatusLines) = 1
    /\ StartsWith(StatusLines[1], NAGIOS_CODE_MESSAGES(exitCode) \o ": ")

\* C4: when main() returns for a service whose healthSummary is neither GOOD
\* nor DISABLED, what follows the summary in the status is the separator
\* " - " and then exactly the entries whose summary is neither GOOD nor
\* DISABLED, each as "<name> (<summary>) ", in the order of the server.
C4_FailingChecksInOrder ==
  (AtReturn /\ s[1].healthSummary \notin {"GOOD", "DISABLED"}) =>
    AfterSummary = " - " \o Rendered(SelectSeq(s[1].healthChecks, IsFailing))

C4_Witness ==
  /\ AtReturn
  /\ s[1].healthSummary = "BAD"
  /\ Len(s[1].healthChecks) = 3
  /\ s[1].healthChecks[1].summary = "CONCERNING"
  /\ s[1].healthChecks[2].summary = "DISABLED"
  /\ s[1].healthChecks[3].summary = "BAD"
  /\ status = "CRITICAL: hdfs is BAD - NAMENODE_RPC_LATENCY (CONCERNING) "
                \o "DATANODES_HEALTHY (BAD) "

\* C5: when main() returns for a service whose healthSummary is GOOD or
\* DISABLED, the status is exactly "<LABEL>: <service name> is
\* <healthSummary>", whatever the health-check list holds.
C5_NoChecksWhenGoodOrDisabled ==
  AtReturn =>
    /\ s[1].healthSummary = "GOOD" => status = "OK: " \o NameIsSummary
    /\ s[1].healthSummary = "DISABLED" =>
         status = "UNKNOWN: " \o NameIsSummary

C5_Witness ==
  /\ AtReturn
  /\ s[1].healthSummary = "DISABLED"
  /\ \E i \in DOMAIN s[1].healthChecks : s[1].healthChecks[i].summary = "BAD"
  /\ status = "UNKNOWN: hdfs is DISABLED"

\* C6: when main() returns for a service whose healthSummary is CONCERNING
\* and whose health-check list has no entry with a summary other than GOOD
\* or DISABLED, the status is exactly "OK: <service> is CONCERNING" and the
\* code is 0.
C6_ConcerningWithoutFailingChecks ==
  ( /\ AtReturn
    /\ s[1].healthSummary = "CONCERNING"
    /\ SelectSeq(s[1].healthChecks, IsFailing) = << >> ) =>
    status = "OK: " \o NameIsSummary /\ code = 0

\* C7: the port passed to the session is 7180 (no TLS) or 7183 (TLS) when no
\* port is given, and the given port, 0 included, when one is given.
C7_PortPassedToSession ==
  api # None =>
    /\ (argv.port = None /\ ~argv.use_tls) => api[1].server_port = 7180
    /\ (argv.port = None /\ argv.use_tls) => api[1].server_port = 7183
    /\ argv.port # None => api[1].server_port = argv.port[1]

\* C8: once the first main() is past validate_api_compatibility, the
\* advisory has been printed exactly if the API version is below 12 (0 and
\* negative versions included).
C8_AdvisoryIffBelowMinimum ==
  (call = 1 /\ pc = "credentials") =>
    (args[1].api_version[1] < 12 <=> Len(stdout) = 1)

\* C9: in one run the session handle is written at most once, each missing
\* credential is prompted for at most once, the cluster and the service are
\* fetched at most once, and no prompt or remote call follows the printing
\* of the status line.
C9_OneEvaluationCycle ==
  /\ hist.apiWrites <= 1
  /\ hist.usernamePrompts <= 1
  /\ hist.passwordPrompts <= 1
  /\ hist.clusterFetches <= 1
  /\ hist.serviceFetches <= 1
  /\ hist.afterPrint = 0

\* C10: a run that ends with a failed remote call has printed no status
\* line.
C10_NoStatusBeforeFailure ==
  error \in RemoteErrors => StatusLines = << >>

====
